---- MODULE Spec2Model ----
(***************************************************************************)
(* The telephony plugin of GSConnect (src/service/plugins/telephony.js):   *)
(* the packet handler, its four event handlers, the window lookup, the     *)
(* media state and the plugin's actions, as a state machine.               *)
(*                                                                         *)
(* Strings that the code takes apart or joins (phone numbers, contact      *)
(* names, notification ids) are sequences of one-character strings.        *)
(* A JavaScript value that is undefined is the value Undefined.            *)
(***************************************************************************)
EXTENDS Integers, Sequences, FiniteSets, TLC

\* ------------------------------------------------------------------ bounds

\* The local clock runs over the seconds 0..MaxTime.
MaxTime == 1
\* At most MaxOps operations of the plugin are taken.
MaxOps == 2

\* ------------------------------------------------------------------ values

Undefined == "undefined"

ExampleFormatted ==
    <<"+", "1", " ", "(", "5", "5", "5", ")", " ", "1", "2", "3", "-", "4", "5", "6", "7">>
ExamplePlain == <<"1", "5", "5", "5", "1", "2", "3", "4", "5", "6", "7">>
OtherNumber == <<"5", "5", "5", "1", "2", "3", "4", "5", "6", "7">>

\* Phone numbers a packet or an action may carry.
Numbers == {ExampleFormatted, ExamplePlain, OtherNumber}
\* Contact names a packet may carry: none (absent or empty), or a name.
Names == {<< >>, <<"A", "n", "n">>}
\* Event kinds a packet may carry: the four handled ones and "ended".
Kinds == {"missedCall", "ringing", "sms", "talking", "ended"}
\* File names the uuid generator may produce for a cached avatar.
AvatarPaths == {<<"u", "1">>, <<"u", "2">>}
\* Device identities of the daemon's windows; a window may have no device.
ThisDevice == "dev1"
OtherDevice == "dev2"
NoDevice == "none"
\* The permission bits of the plugin's allow mask.
AllowBits == {"CALLS", "SMS"}

Digits == {"0", "1", "2", "3", "4", "5", "6", "7", "8", "9"}

\* number.replace(/\D/g, ""): every character that is not a digit is dropped.
StripNonDigits(s) == SelectSeq(s, LAMBDA c : c \in Digits)

DigitChar(d) == <<"0", "1", "2", "3", "4", "5", "6", "7", "8", "9">>[d + 1]

\* The decimal form of a number, as JavaScript's string conversion gives it.
RECURSIVE ToDigits(_)
ToDigits(n) == IF n < 10 THEN <<DigitChar(n)>>
               ELSE ToDigits(n \div 10) \o <<DigitChar(n % 10)>>

\* kind + "|" + rest
Key(kind, rest) == <<kind, "|">> \o rest

\* JavaScript's a & b on non-negative integers.
RECURSIVE BitAnd(_, _)
BitAnd(a, b) == IF a = 0 \/ b = 0 THEN 0
                ELSE 2 * BitAnd(a \div 2, b \div 2) + (a % 2) * (b % 2)

\* x || "" for a string that may be undefined.
OrEmpty(x) == IF x = Undefined THEN "" ELSE x

\* A truthy JavaScript string: defined and not empty.
Truthy(x) == x # Undefined /\ x # ""

\* A contact without an avatar: the avatar is not set (falsy).
NoAvatar == << >>

\* ------------------------------------------------------------------ state

VARIABLES
    _state,           \* this._state: 0 while unset, else 1 or 2
    allow,            \* this.allow: the permission bits that are set
    hasNotification,  \* whether the device has the notification plugin
    dedup,            \* the notification plugin's records, by localId
    shown,            \* ids of the notifications the device presents
    windows,          \* daemon.get_windows(), in order
    avatars,          \* the contact store: contact name -> avatar path
    clock,            \* the local time in seconds
    nOps,             \* operations taken so far
    last              \* the last operation: its input and what it did

vars == <<_state, allow, hasNotification, dedup, shown, windows, avatars,
          clock, nOps, last>>

\* One thing an operation did, in the order it did it.
Eff(type, id, data) == [type |-> type, id |-> id, data |-> data]

\* The effects of one type, in order.
Only(trace, type) == SelectSeq(trace, LAMBDA e : e.type = type)

\* The position of the first effect of a type, or 0.
FirstPos(trace, type) ==
    IF \E i \in 1..Len(trace) : trace[i].type = type
    THEN CHOOSE i \in 1..Len(trace) :
            /\ trace[i].type = type
            /\ \A j \in 1..(i - 1) : trace[j].type # type
    ELSE 0

\* ---------------------------------------------------------- collaborators

\* The contact store's getContact(name, number): a best-effort contact whose
\* display name falls back to the phone number.
getContact(store, contactName, phoneNumber) ==
    LET name == IF contactName = << >> THEN phoneNumber ELSE contactName
    IN [name |-> name,
        avatar |-> IF name \in DOMAIN store THEN store[name] ELSE NoAvatar]

\* markDuplicate creating a cancelled record when it cancels an unknown id.
markDuplicate_CancelInserts(records, localId, ticker, isCancel) ==
    [id \in DOMAIN records \cup {localId} |->
        IF id = localId THEN [ticker |-> ticker, cancelled |-> isCancel]
        ELSE records[id]]

\* The notification plugin's markDuplicate({localId, ticker, isCancel}).
markDuplicate(records, localId, ticker, isCancel) ==
    IF ~isCancel
    THEN [id \in DOMAIN records \cup {localId} |->
            IF id = localId THEN [ticker |-> ticker, cancelled |-> FALSE]
            ELSE records[id]]
    ELSE IF localId \in DOMAIN records
         THEN [records EXCEPT ![localId].cancelled = TRUE]
         ELSE records

\* new Sms.ConversationWindow(device): a window of the device with no number
\* and an empty log.
ConversationWindow(device) ==
    [device |-> device, number |-> << >>, log |-> << >>,
     urgency_hint |-> FALSE, _notifications |-> << >>, message |-> Undefined,
     share |-> FALSE]

\* window.receiveMessage(contact, phoneNumber, messageBody): the message is
\* logged and the window becomes the conversation with that number.
receiveMessage(win, contact, phoneNumber, messageBody) ==
    [win EXCEPT !.log = Append(@, <<contact.name, messageBody>>),
                !.number = IF @ = << >> THEN phoneNumber ELSE @]

\* ------------------------------------------------------------ the plugin

\* The part of the state a handler works on, with the effects so far.
World == [state |-> _state, dedup |-> dedup, shown |-> shown,
          windows |-> windows, trace |-> << >>]

Did(w, type, id, data) == [w EXCEPT !.trace = Append(@, Eff(type, id, data))]

\* this.device.send_notification(id, notif): presented under id, replacing
\* whatever was presented under it.
send_notification(w, id, notif) ==
    Did([w EXCEPT !.shown = @ \cup {id}], "send_notification", id, notif)

\* this.device.withdraw_notification(id)
withdraw_notification(w, id) ==
    Did([w EXCEPT !.shown = @ \ {id}], "withdraw_notification", id, Undefined)

\* _setMediaState masking with the restore value instead of the active one.
_setMediaState_MaskOne(state) ==
    IF state = 1 THEN 1 ELSE BitAnd(1, state)

\* The value _setMediaState(state) leaves in this._state.
_setMediaState(state) ==
    IF state = 1 THEN 1
    ELSE IF BitAnd(state, 2) # 0 THEN BitAnd(2, state)
    ELSE IF BitAnd(state, 4) # 0 THEN BitAnd(2, state)
    ELSE 2

setMediaState(w, state) ==
    Did([w EXCEPT !.state = _setMediaState(state)], "_setMediaState", Undefined, state)

\* _hasWindow taking the window of any device.
_hasWindow_AnyDevice(wins, number) ==
    LET digits == StripNonDigits(number)
        Match(i) == /\ wins[i].device # NoDevice
                    /\ digits = StripNonDigits(wins[i].number)
    IN IF \E i \in 1..Len(wins) : Match(i)
       THEN CHOOSE i \in 1..Len(wins) :
               Match(i) /\ \A j \in 1..(i - 1) : ~Match(j)
       ELSE 0

\* _hasWindow(number): the index of the first window of this device whose
\* number has the digits of the query, or 0 (false) when there is none.
_hasWindow(wins, number) ==
    LET digits == StripNonDigits(number)
        Match(i) == /\ wins[i].device # NoDevice
                    /\ wins[i].device = ThisDevice
                    /\ digits = StripNonDigits(wins[i].number)
    IN IF \E i \in 1..Len(wins) : Match(i)
       THEN CHOOSE i \in 1..Len(wins) :
               Match(i) /\ \A j \in 1..(i - 1) : ~Match(j)
       ELSE 0

\* The notification plugin's markDuplicate, called when the plugin is there.
MarkDuplicate(w, localId, ticker, isCancel) ==
    IF hasNotification
    THEN Did([w EXCEPT !.dedup = markDuplicate(@, localId, ticker, isCancel)],
             "markDuplicate", localId, [ticker |-> ticker, isCancel |-> isCancel])
    ELSE w

\* The lookup of a window, recorded among the effects.
LookedUp(w, number) == Did(w, "_hasWindow", number, _hasWindow(w.windows, number))

\* What the handlers do to the window they found: the message is logged,
\* the window is marked urgent, and the notification is remembered.
InWindow(w, win, event, text) ==
    Did([w EXCEPT !.windows[win] =
            [receiveMessage(@, event.contact, event.phoneNumber, text) EXCEPT
                !.urgency_hint = TRUE,
                !._notifications =
                    Append(@, <<event.event, "|", event.contact.name, ": ",
                                event.messageBody>>)]],
        "receiveMessage", win, text)

\* _onMissedCall without the isCancel flag in its second markDuplicate.
_onMissedCall_NoCancelFlag(w, event) ==
    LET id == Key("missedCall", ToDigits(event.time))
        w1 == Did(w, "handler", "_onMissedCall", Undefined)
        w2 == MarkDuplicate(w1, id, <<"Missed call", ": ", event.contact.name>>, FALSE)
        win == _hasWindow(w2.windows, event.phoneNumber)
        w3 == LookedUp(w2, event.phoneNumber)
        w4 == IF win # 0
              THEN MarkDuplicate(
                       InWindow(w3, win, event, <<"Missed call at", event.time>>),
                       id, <<event.contact.name, ": ", event.messageBody>>, FALSE)
              ELSE w3
        notif == [title |-> "Missed Call",
                  body |-> <<"Missed call from", event.contact.name>>,
                  icon |-> event.gicon,
                  priority |-> "NORMAL",
                  action |-> <<"replyMissedCall", event.phoneNumber,
                               event.contact.name, event.time>>]
    IN send_notification(w4, Key(event.event, ToDigits(event.time)), notif)

_onMissedCall(w, event) ==
    LET id == Key("missedCall", ToDigits(event.time))
        w1 == Did(w, "handler", "_onMissedCall", Undefined)
        w2 == MarkDuplicate(w1, id, <<"Missed call", ": ", event.contact.name>>, FALSE)
        win == _hasWindow(w2.windows, event.phoneNumber)
        w3 == LookedUp(w2, event.phoneNumber)
        w4 == IF win # 0
              THEN MarkDuplicate(
                       InWindow(w3, win, event, <<"Missed call at", event.time>>),
                       id, <<event.contact.name, ": ", event.messageBody>>, TRUE)
              ELSE w3
        notif == [title |-> "Missed Call",
                  body |-> <<"Missed call from", event.contact.name>>,
                  icon |-> event.gicon,
                  priority |-> "NORMAL",
                  action |-> <<"replyMissedCall", event.phoneNumber,
                               event.contact.name, event.time>>]
    IN send_notification(w4, Key(event.event, ToDigits(event.time)), notif)

_onRinging(w, event) ==
    LET w1 == Did(w, "handler", "_onRinging", Undefined)
        notif == [title |-> "Incoming Call",
                  body |-> <<"Incoming call from", event.contact.name>>,
                  icon |-> event.gicon,
                  priority |-> "URGENT",
                  action |-> <<"muteCall">>]
        w2 == send_notification(w1, Key(event.event, ToDigits(event.time)), notif)
    IN setMediaState(w2, 2)

\* _onSms setting the active media state, as the call handlers do.
_onSms_SetsState(w, event) ==
    LET id == Key("sms", ToDigits(event.time))
        ticker == <<event.contact.name, ": ", event.messageBody>>
        w1 == Did(w, "handler", "_onSms", Undefined)
        w2 == MarkDuplicate(w1, id, ticker, FALSE)
        win == _hasWindow(w2.windows, event.phoneNumber)
        w3 == LookedUp(w2, event.phoneNumber)
        w4 == IF win # 0
              THEN MarkDuplicate(InWindow(w3, win, event, event.messageBody),
                                 id, ticker, TRUE)
              ELSE w3
        notif == [title |-> event.contact.name,
                  body |-> event.messageBody,
                  icon |-> event.gicon,
                  priority |-> "HIGH",
                  action |-> <<"replySms", event.phoneNumber, event.contact.name,
                               event.messageBody, event.time>>]
        w5 == send_notification(w4, Key(event.event, ToDigits(event.time)), notif)
    IN setMediaState(w5, 2)

\* _onSms registering the duplicate after the window lookup.
_onSms_LookupFirst(w, event) ==
    LET id == Key("sms", ToDigits(event.time))
        ticker == <<event.contact.name, ": ", event.messageBody>>
        w1 == Did(w, "handler", "_onSms", Undefined)
        win == _hasWindow(w1.windows, event.phoneNumber)
        w2 == LookedUp(w1, event.phoneNumber)
        w3 == MarkDuplicate(w2, id, ticker, FALSE)
        w4 == IF win # 0
              THEN MarkDuplicate(InWindow(w3, win, event, event.messageBody),
                                 id, ticker, TRUE)
              ELSE w3
        notif == [title |-> event.contact.name,
                  body |-> event.messageBody,
                  icon |-> event.gicon,
                  priority |-> "HIGH",
                  action |-> <<"replySms", event.phoneNumber, event.contact.name,
                               event.messageBody, event.time>>]
    IN send_notification(w4, Key(event.event, ToDigits(event.time)), notif)

\* _onSms sending the notification only when no window was found.
_onSms_NotifyUnlessWindow(w, event) ==
    LET id == Key("sms", ToDigits(event.time))
        ticker == <<event.contact.name, ": ", event.messageBody>>
        w1 == Did(w, "handler", "_onSms", Undefined)
        w2 == MarkDuplicate(w1, id, ticker, FALSE)
        win == _hasWindow(w2.windows, event.phoneNumber)
        w3 == LookedUp(w2, event.phoneNumber)
        notif == [title |-> event.contact.name,
                  body |-> event.messageBody,
                  icon |-> event.gicon,
                  priority |-> "HIGH",
                  action |-> <<"replySms", event.phoneNumber, event.contact.name,
                               event.messageBody, event.time>>]
    IN IF win # 0
       THEN MarkDuplicate(InWindow(w3, win, event, event.messageBody), id, ticker, TRUE)
       ELSE send_notification(w3, Key(event.event, ToDigits(event.time)), notif)

\* _onSms titling the notification with the packet's contact name.
_onSms_PacketName(w, event) ==
    LET id == Key("sms", ToDigits(event.time))
        ticker == <<event.contact.name, ": ", event.messageBody>>
        w1 == Did(w, "handler", "_onSms", Undefined)
        w2 == MarkDuplicate(w1, id, ticker, FALSE)
        win == _hasWindow(w2.windows, event.phoneNumber)
        w3 == LookedUp(w2, event.phoneNumber)
        w4 == IF win # 0
              THEN MarkDuplicate(InWindow(w3, win, event, event.messageBody),
                                 id, ticker, TRUE)
              ELSE w3
        notif == [title |-> event.contactName,
                  body |-> event.messageBody,
                  icon |-> event.gicon,
                  priority |-> "HIGH",
                  action |-> <<"replySms", event.phoneNumber, event.contact.name,
                               event.messageBody, event.time>>]
    IN send_notification(w4, Key(event.event, ToDigits(event.time)), notif)

_onSms(w, event) ==
    LET id == Key("sms", ToDigits(event.time))
        ticker == <<event.contact.name, ": ", event.messageBody>>
        w1 == Did(w, "handler", "_onSms", Undefined)
        w2 == MarkDuplicate(w1, id, ticker, FALSE)
        win == _hasWindow(w2.windows, event.phoneNumber)
        w3 == LookedUp(w2, event.phoneNumber)
        w4 == IF win # 0
              THEN MarkDuplicate(InWindow(w3, win, event, event.messageBody),
                                 id, ticker, TRUE)
              ELSE w3
        notif == [title |-> event.contact.name,
                  body |-> event.messageBody,
                  icon |-> event.gicon,
                  priority |-> "HIGH",
                  action |-> <<"replySms", event.phoneNumber, event.contact.name,
                               event.messageBody, event.time>>]
    IN send_notification(w4, Key(event.event, ToDigits(event.time)), notif)

_onTalking(w, event) ==
    LET w1 == Did(w, "handler", "_onTalking", Undefined)
        w2 == withdraw_notification(w1, Key("ringing", event.contact.name))
        notif == [title |-> "Call In Progress",
                  body |-> <<"Call in progress with", event.contact.name>>,
                  icon |-> event.gicon,
                  priority |-> "NORMAL",
                  action |-> << >>]
        w3 == send_notification(w2, Key(event.event, ToDigits(event.time)), notif)
    IN setMediaState(w3, 2)

\* _parsePacket writing the avatar of every thumbnail, over one that is set.
_parsePacket_Overwrite(packet, now, path) ==
    LET found == getContact(avatars, packet.contactName, packet.phoneNumber)
        write == Truthy(packet.phoneThumbnail)
        contact == IF write THEN [found EXCEPT !.avatar = path] ELSE found
        gicon == IF contact.avatar # NoAvatar THEN <<"pixbuf", contact.avatar>>
                 ELSE IF packet.event = "missedCall" THEN <<"call-missed-symbolic">>
                 ELSE IF packet.event \in {"ringing", "talking"}
                      THEN <<"call-start-symbolic">>
                 ELSE IF packet.event = "sms" THEN <<"sms-symbolic">>
                 ELSE << >>
    IN [event |-> [event |-> packet.event,
                   contactName |-> packet.contactName,
                   phoneNumber |-> packet.phoneNumber,
                   messageBody |-> packet.messageBody,
                   phoneThumbnail |-> IF Truthy(packet.phoneThumbnail)
                                      THEN Undefined ELSE packet.phoneThumbnail,
                   isCancel |-> packet.isCancel,
                   time |-> now,
                   contact |-> contact,
                   gicon |-> gicon],
        wrote |-> write,
        store |-> IF write
                  THEN [n \in DOMAIN avatars \cup {contact.name} |->
                           IF n = contact.name THEN path ELSE avatars[n]]
                  ELSE avatars]

\* _parsePacket(packet): the event, and the contact store after the avatar
\* update. now is the local time and path the file name drawn for the avatar.
_parsePacket(packet, now, path) ==
    LET found == getContact(avatars, packet.contactName, packet.phoneNumber)
        write == Truthy(packet.phoneThumbnail) /\ found.avatar = NoAvatar
        contact == IF write THEN [found EXCEPT !.avatar = path] ELSE found
        gicon == IF contact.avatar # NoAvatar THEN <<"pixbuf", contact.avatar>>
                 ELSE IF packet.event = "missedCall" THEN <<"call-missed-symbolic">>
                 ELSE IF packet.event \in {"ringing", "talking"}
                      THEN <<"call-start-symbolic">>
                 ELSE IF packet.event = "sms" THEN <<"sms-symbolic">>
                 ELSE << >>
    IN [event |-> [event |-> packet.event,
                   contactName |-> packet.contactName,
                   phoneNumber |-> packet.phoneNumber,
                   messageBody |-> packet.messageBody,
                   phoneThumbnail |-> IF Truthy(packet.phoneThumbnail)
                                      THEN Undefined ELSE packet.phoneThumbnail,
                   isCancel |-> packet.isCancel,
                   time |-> now,
                   contact |-> contact,
                   gicon |-> gicon],
        wrote |-> write,
        store |-> IF write
                  THEN [n \in DOMAIN avatars \cup {contact.name} |->
                           IF n = contact.name THEN path ELSE avatars[n]]
                  ELSE avatars]

\* this.emit("event", ...): the signal carries the contact's name, the phone
\* number, the avatar and the message body, each "" when it is not set.
Emitted(w, event) ==
    Did(w, "emit", event.event,
        <<event.contact.name, event.phoneNumber, event.contact.avatar,
          OrEmpty(event.messageBody)>>)

\* Route withdrawing the notification of the contact's event on a rejection.
Route_RejectWithdraws(w, event) ==
    LET w1 == Emitted(w, event)
        rejected == Did(withdraw_notification(w1, Key(event.event, event.contact.name)),
                        "reject", Undefined, FALSE)
    IN IF event.event = "sms" /\ "SMS" \in allow
       THEN Did(_onSms(w1, event), "resolve", Undefined, TRUE)
       ELSE IF "CALLS" \in allow
       THEN CASE event.event = "missedCall" ->
                   Did(_onMissedCall(w1, event), "resolve", Undefined, TRUE)
              [] event.event = "ringing" ->
                   Did(_onRinging(w1, event), "resolve", Undefined, TRUE)
              [] event.event = "talking" ->
                   Did(_onTalking(w1, event), "resolve", Undefined, TRUE)
              [] OTHER -> rejected
       ELSE rejected

\* Route with the signal emitted only for an event that a handler takes.
Route_EmitWhenHandled(w, event) ==
    IF event.event = "sms" /\ "SMS" \in allow
    THEN Did(_onSms(Emitted(w, event), event), "resolve", Undefined, TRUE)
    ELSE IF "CALLS" \in allow /\ event.event = "missedCall"
    THEN Did(_onMissedCall(Emitted(w, event), event), "resolve", Undefined, TRUE)
    ELSE IF "CALLS" \in allow /\ event.event = "ringing"
    THEN Did(_onRinging(Emitted(w, event), event), "resolve", Undefined, TRUE)
    ELSE IF "CALLS" \in allow /\ event.event = "talking"
    THEN Did(_onTalking(Emitted(w, event), event), "resolve", Undefined, TRUE)
    ELSE Did(w, "reject", Undefined, FALSE)

\* Route with an sms taken by the SMS handler under either permission bit.
Route_SmsUnderAnyBit(w, event) ==
    LET w1 == Emitted(w, event)
    IN IF event.event = "sms" /\ allow # {}
       THEN Did(_onSms(w1, event), "resolve", Undefined, TRUE)
       ELSE IF "CALLS" \in allow
       THEN CASE event.event = "missedCall" ->
                   Did(_onMissedCall(w1, event), "resolve", Undefined, TRUE)
              [] event.event = "ringing" ->
                   Did(_onRinging(w1, event), "resolve", Undefined, TRUE)
              [] event.event = "talking" ->
                   Did(_onTalking(w1, event), "resolve", Undefined, TRUE)
              [] OTHER -> Did(w1, "reject", Undefined, FALSE)
       ELSE Did(w1, "reject", Undefined, FALSE)

\* handlePacket for an event that is not a cancel: the "event" signal, then
\* the handler the permissions allow, or a rejection.
Route(w, event) ==
    LET w1 == Emitted(w, event)
    IN IF event.event = "sms" /\ "SMS" \in allow
       THEN Did(_onSms(w1, event), "resolve", Undefined, TRUE)
       ELSE IF "CALLS" \in allow
       THEN CASE event.event = "missedCall" ->
                   Did(_onMissedCall(w1, event), "resolve", Undefined, TRUE)
              [] event.event = "ringing" ->
                   Did(_onRinging(w1, event), "resolve", Undefined, TRUE)
              [] event.event = "talking" ->
                   Did(_onTalking(w1, event), "resolve", Undefined, TRUE)
              [] OTHER -> Did(w1, "reject", Undefined, FALSE)
       ELSE Did(w1, "reject", Undefined, FALSE)

\* Dispatch without the else: a cancel is withdrawn and then routed like any
\* other event.
Dispatch_NoElse(w, event) ==
    IF event.isCancel
    THEN Route(withdraw_notification(setMediaState(w, 1),
                                     Key(event.event, event.contact.name)),
               event)
    ELSE Route(w, event)

\* Dispatch with a cancel that sets the active media state.
Dispatch_CancelActive(w, event) ==
    IF event.isCancel
    THEN withdraw_notification(setMediaState(w, 2),
                               Key(event.event, event.contact.name))
    ELSE Route(w, event)

\* handlePacket after _parsePacket: what is done for the event.
Dispatch(w, event) ==
    IF event.isCancel
    THEN withdraw_notification(setMediaState(w, 1),
                               Key(event.event, event.contact.name))
    ELSE Route(w, event)

\* Phone numbers a packet may carry.
PacketNumbers == {ExampleFormatted, OtherNumber}

\* The packets the device may send: an sms carries a message body, a call
\* event does not.
Packets ==
    { p \in [event : Kinds, contactName : Names, phoneNumber : PacketNumbers,
             messageBody : {Undefined, "hi"}, phoneThumbnail : {Undefined, "jpeg"},
             isCancel : BOOLEAN] :
        (p.messageBody # Undefined) <=> (p.event = "sms") }

\* What the operation op did, given input and the world it left.
Done(op, input, w) ==
    last' = [op |-> op, event |-> input, preState |-> _state, trace |-> w.trace]

Commit(w) ==
    /\ _state' = w.state
    /\ dedup' = w.dedup
    /\ shown' = w.shown
    /\ windows' = w.windows

handlePacket(packet, path) ==
    /\ nOps < MaxOps
    /\ LET parsed == _parsePacket(packet, clock, path)
           w == Dispatch(World, parsed.event)
       IN /\ Commit(w)
          /\ avatars' = parsed.store
          /\ last' = [op |-> "handlePacket", event |-> parsed.event,
                      preState |-> _state, trace |-> w.trace, packet |-> packet,
                      wrote |-> parsed.wrote]
    /\ nOps' = nOps + 1
    /\ UNCHANGED <<allow, hasNotification, clock>>

\* muteCall also setting the restore media state.
MuteCallBody_SetsState(w) ==
    setMediaState(
        Did(w, "sendPacket", "kdeconnect.telephony.request", [action |-> "mute"]), 1)

\* muteCall(): a telephony request with the action "mute" is sent.
MuteCallBody(w) ==
    Did(w, "sendPacket", "kdeconnect.telephony.request", [action |-> "mute"])

muteCall ==
    /\ nOps < MaxOps
    /\ LET w == MuteCallBody(World)
       IN Commit(w) /\ Done("muteCall", [event |-> "none", isCancel |-> FALSE], w)
    /\ nOps' = nOps + 1
    /\ UNCHANGED <<allow, hasNotification, avatars, clock>>

\* sendSms(phoneNumber, messageBody): an sms request is sent.
SendSmsBody(w, phoneNumber, messageBody) ==
    Did(w, "sendPacket", "kdeconnect.sms.request",
        [sendSms |-> TRUE, phoneNumber |-> phoneNumber, messageBody |-> messageBody])

sendSms(phoneNumber, messageBody) ==
    /\ nOps < MaxOps
    /\ LET w == SendSmsBody(World, phoneNumber, messageBody)
       IN Commit(w) /\ Done("sendSms", [event |-> "none", isCancel |-> FALSE], w)
    /\ nOps' = nOps + 1
    /\ UNCHANGED <<allow, hasNotification, avatars, clock>>

\* A window is constructed: it joins the daemon's windows.
NewWindow(w, win) == [w EXCEPT !.windows = Append(@, win)]

Present(w, win) == Did(w, "present", win, Undefined)

\* openSms(): a blank conversation window is opened and presented.
OpenSmsBody(w) ==
    Present(NewWindow(w, ConversationWindow(ThisDevice)), Len(w.windows) + 1)

openSms ==
    /\ nOps < MaxOps
    /\ LET w == OpenSmsBody(World)
       IN Commit(w) /\ Done("openSms", [event |-> "none", isCancel |-> FALSE], w)
    /\ nOps' = nOps + 1
    /\ UNCHANGED <<allow, hasNotification, avatars, clock>>

\* replyMissedCall(phoneNumber, contactName, time)
ReplyMissedCallBody(w, phoneNumber, contactName, time) ==
    LET contact == getContact(avatars, phoneNumber, contactName)
        found == _hasWindow(w.windows, phoneNumber)
        w1 == LookedUp(w, phoneNumber)
        win == IF found # 0 THEN found ELSE Len(w.windows) + 1
        w2 == IF found # 0 THEN w1
              ELSE MarkDuplicate(NewWindow(w1, ConversationWindow(ThisDevice)),
                                 Key("missedCall", ToDigits(time)),
                                 <<"Missed call", ": ", contact.name>>, TRUE)
        w3 == Did([w2 EXCEPT !.windows[win] =
                      receiveMessage(@, contact, phoneNumber,
                                     <<"Missed call at", time>>)],
                  "receiveMessage", win, <<"Missed call at", time>>)
    IN Present(w3, win)

replyMissedCall(phoneNumber, contactName, time) ==
    /\ nOps < MaxOps
    /\ LET w == ReplyMissedCallBody(World, phoneNumber, contactName, time)
       IN Commit(w) /\ Done("replyMissedCall", [event |-> "none", isCancel |-> FALSE], w)
    /\ nOps' = nOps + 1
    /\ UNCHANGED <<allow, hasNotification, avatars, clock>>

\* replySms(phoneNumber, contactName, messageBody, time)
ReplySmsBody(w, phoneNumber, contactName, messageBody, time) ==
    LET found == _hasWindow(w.windows, phoneNumber)
        w1 == LookedUp(w, phoneNumber)
        win == IF found # 0 THEN found ELSE Len(w.windows) + 1
        contact == getContact(avatars, contactName, phoneNumber)
        w2 == IF found # 0 THEN w1
              ELSE LET w3 == NewWindow(w1, ConversationWindow(ThisDevice))
                       w4 == Did([w3 EXCEPT !.windows[win] =
                                     [receiveMessage(@, contact, phoneNumber,
                                                     messageBody)
                                      EXCEPT !.urgency_hint = TRUE]],
                                 "receiveMessage", win, messageBody)
                   IN MarkDuplicate(w4, Key("sms", ToDigits(time)),
                                    <<contact.name, ": ", messageBody>>, TRUE)
    IN Present(w2, win)

replySms(phoneNumber, contactName, messageBody, time) ==
    /\ nOps < MaxOps
    /\ LET w == ReplySmsBody(World, phoneNumber, contactName, messageBody, time)
       IN Commit(w) /\ Done("replySms", [event |-> "none", isCancel |-> FALSE], w)
    /\ nOps' = nOps + 1
    /\ UNCHANGED <<allow, hasNotification, avatars, clock>>

\* new Sms.ShareWindow(device, url): the recipient picker for url.
ShareWindow(device, url) ==
    [ConversationWindow(device) EXCEPT !.share = TRUE, !.message = url]

\* shareUri counting the conversations of every device.
ShareUriBody_AnyDevice(w, url) ==
    LET hasConversations ==
            \E i \in 1..Len(w.windows) : w.windows[i].number # << >>
        win == Len(w.windows) + 1
        w1 == IF hasConversations
              THEN NewWindow(w, ShareWindow(ThisDevice, url))
              ELSE Did(NewWindow(w, [ConversationWindow(ThisDevice)
                                        EXCEPT !.message = url]),
                       "setMessage", win, url)
    IN Present(w1, win)

\* shareUri(url)
ShareUriBody(w, url) ==
    LET hasConversations ==
            \E i \in 1..Len(w.windows) :
                /\ w.windows[i].device # NoDevice
                /\ w.windows[i].device = ThisDevice
                /\ w.windows[i].number # << >>
        win == Len(w.windows) + 1
        w1 == IF hasConversations
              THEN NewWindow(w, ShareWindow(ThisDevice, url))
              ELSE Did(NewWindow(w, [ConversationWindow(ThisDevice)
                                        EXCEPT !.message = url]),
                       "setMessage", win, url)
    IN Present(w1, win)

shareUri(url) ==
    /\ nOps < MaxOps
    /\ LET w == ShareUriBody(World, url)
       IN Commit(w) /\ Done("shareUri", [event |-> "none", isCancel |-> FALSE], w)
    /\ nOps' = nOps + 1
    /\ UNCHANGED <<allow, hasNotification, avatars, clock>>

\* A window that is not this device's is opened in the daemon: a conversation
\* of another device, or a window of no device.
OtherWindow(device, number) ==
    /\ nOps < MaxOps
    /\ windows' = Append(windows, [ConversationWindow(device) EXCEPT !.number = number])
    /\ last' = [op |-> "otherWindow", event |-> [event |-> "none", isCancel |-> FALSE],
                preState |-> _state, trace |-> << >>]
    /\ nOps' = nOps + 1
    /\ UNCHANGED <<_state, allow, hasNotification, dedup, shown, avatars, clock>>

\* The local clock advances by a second, while operations are still to come.
Tick ==
    /\ nOps < MaxOps
    /\ clock < MaxTime
    /\ clock' = clock + 1
    /\ UNCHANGED <<_state, allow, hasNotification, dedup, shown, windows,
                   avatars, nOps, last>>

\* The window lookup on its own: the daemon has any windows, of this device,
\* of another device or of none, and a number is looked up.
MaxLookupWindows == 2

LookupNumbers == Numbers \cup {<< >>, <<"+">>}

LookupWindows ==
    UNION { [1..n -> { [ConversationWindow(d) EXCEPT !.number = num] :
                          d \in {ThisDevice, OtherDevice, NoDevice},
                          num \in LookupNumbers }] :
            n \in 0..MaxLookupWindows }

InitLookup ==
    /\ _state = 0
    /\ allow = AllowBits
    /\ hasNotification = TRUE
    /\ dedup = << >>
    /\ shown = {}
    /\ windows \in LookupWindows
    /\ avatars = << >>
    /\ clock = 0
    /\ nOps = 0
    /\ last = [op |-> "init", event |-> [event |-> "none", isCancel |-> FALSE],
               preState |-> 0, trace |-> << >>]

Lookup(number) ==
    /\ LET w == LookedUp(World, number)
       IN Done("_hasWindow", [event |-> "none", isCancel |-> FALSE], w)
    /\ UNCHANGED <<_state, allow, hasNotification, dedup, shown, windows,
                   avatars, clock, nOps>>

NextLookup == \E number \in LookupNumbers : Lookup(number)

SpecLookup == InitLookup /\ [][NextLookup]_vars


\* --------------------------------------------------------------- sms: URIs

Upper == {"A", "B", "C", "D", "E", "F", "G", "H", "I", "J", "K", "L", "M",
          "N", "O", "P", "Q", "R", "S", "T", "U", "V", "W", "X", "Y", "Z"}
Lower == {"a", "b", "c", "d", "e", "f", "g", "h", "i", "j", "k", "l", "m",
          "n", "o", "p", "q", "r", "s", "t", "u", "v", "w", "x", "y", "z"}
\* \w
WordChars == Upper \cup Lower \cup Digits \cup {"_"}
\* [0-9A-F]
HexChars == Digits \cup {"A", "B", "C", "D", "E", "F"}
\* [\w.!~*'()-]
SmsParamChars == WordChars \cup {".", "!", "~", "*", "'", "(", ")", "-"}
\* [a-zA-Z0-9-]
TelKeyChars == Upper \cup Lower \cup Digits \cup {"-"}
\* [\w\[\]/:&+$.!~*'()-]
TelValueChars == SmsParamChars \cup {"[", "]", "/", ":", "&", "+", "$"}
\* [0-9A-F*#().-]
LenientDigitChars == HexChars \cup {"*", "#", "(", ")", ".", "-"}

\* The printable ASCII characters, from code 32 (the space) to code 126;
\* "grave" is the grave accent of code 96.
Ascii ==
    <<" ", "!", "\"", "#", "$", "%", "&", "'", "(", ")", "*", "+", ",", "-",
      ".", "/", "0", "1", "2", "3", "4", "5", "6", "7", "8", "9", ":", ";",
      "<", "=", ">", "?", "@", "A", "B", "C", "D", "E", "F", "G", "H", "I",
      "J", "K", "L", "M", "N", "O", "P", "Q", "R", "S", "T", "U", "V", "W",
      "X", "Y", "Z", "[", "\\", "]", "^", "_", "grave", "a", "b", "c", "d", "e",
      "f", "g", "h", "i", "j", "k", "l", "m", "n", "o", "p", "q", "r", "s",
      "t", "u", "v", "w", "x", "y", "z", "{", "|", "}", "~">>
\* The one character beyond ASCII of the model's alphabet: e with an acute
\* accent, of code 233 (0xE9), in UTF-8 the bytes 0xC3 0xA9.
EAcute == "e-acute"

HexDigit(v) ==
    <<"0", "1", "2", "3", "4", "5", "6", "7", "8", "9", "A", "B", "C", "D",
      "E", "F">>[v + 1]
HexVal(c) == CHOOSE v \in 0..15 : HexDigit(v) = c

\* The code of a character of the alphabet.
CharCode(c) ==
    IF c = EAcute THEN 233
    ELSE 31 + (CHOOSE i \in 1..Len(Ascii) : Ascii[i] = c)

\* s.startsWith(prefix)
StartsWith(s, prefix) ==
    Len(s) >= Len(prefix) /\ SubSeq(s, 1, Len(prefix)) = prefix

\* s.substr(n): s without its first n characters.
Substr(s, n) == SubSeq(s, n + 1, Len(s))

\* s.indexOf(c) + 1: the position of the first c in s, or 0.
IndexOf(s, c) ==
    IF \E i \in 1..Len(s) : s[i] = c
    THEN CHOOSE i \in 1..Len(s) : s[i] = c /\ \A j \in 1..(i - 1) : s[j] # c
    ELSE 0

\* s.split(sep) for a one-character separator.
RECURSIVE Split(_, _)
Split(s, sep) ==
    LET i == IndexOf(s, sep)
    IN IF i = 0 THEN <<s>>
       ELSE <<SubSeq(s, 1, i - 1)>> \o Split(Substr(s, i), sep)

\* parts.join(sep)
RECURSIVE Join(_, _)
Join(parts, sep) ==
    IF parts = << >> THEN << >>
    ELSE IF Len(parts) = 1 THEN parts[1]
    ELSE parts[1] \o <<sep>> \o Join(Tail(parts), sep)

\* (?:[class]|%[0-9A-F]{2})* matching all of s.
RECURSIVE EscapedRun(_, _)
EscapedRun(s, class) ==
    IF s = << >> THEN TRUE
    ELSE IF Head(s) \in class THEN EscapedRun(Tail(s), class)
    ELSE /\ Head(s) = "%"
         /\ Len(s) >= 3
         /\ s[2] \in HexChars
         /\ s[3] \in HexChars
         /\ EscapedRun(Substr(s, 3), class)

\* _smsParam matching all of s: a key, "=", and a value that may be empty.
_smsParam(s) ==
    LET eq == IndexOf(s, "=")
    IN /\ eq > 1
       /\ \A i \in 1..(eq - 1) : s[i] \in SmsParamChars
       /\ EscapedRun(Substr(s, eq), SmsParamChars)

\* _telParam matching all of s: ";", a key, "=", and a value that is not empty.
_telParam(s) ==
    LET eq == IndexOf(s, "=")
    IN /\ StartsWith(s, <<";">>)
       /\ eq > 2
       /\ \A i \in 2..(eq - 1) : s[i] \in TelKeyChars
       /\ Len(s) > eq
       /\ EscapedRun(Substr(s, eq), TelValueChars)

Space20 == <<"%", "2", "0">>

\* The digits without the lookaheads: spaces may follow one another.
RECURSIVE LenientItems_AnySpaces(_, _)
LenientItems_AnySpaces(s, after) ==
    /\ s # << >>
    /\ \/ /\ Head(s) \in LenientDigitChars \cup {" "}
          /\ Len(s) = 1 \/ LenientItems_AnySpaces(Tail(s), after)
       \/ /\ StartsWith(s, Space20)
          /\ Len(s) = 3 \/ LenientItems_AnySpaces(Substr(s, 3), after)

\* (?:[0-9A-F*#().-]| (?! )|%20(?!%20))+ matching all of s, when after is
\* what follows s in the string.
RECURSIVE LenientItems(_, _)
LenientItems(s, after) ==
    /\ s # << >>
    /\ \/ /\ Head(s) \in LenientDigitChars
          /\ Len(s) = 1 \/ LenientItems(Tail(s), after)
       \/ /\ Head(s) = " "
          /\ ~StartsWith(Tail(s) \o after, <<" ">>)
          /\ Len(s) = 1 \/ LenientItems(Tail(s), after)
       \/ /\ StartsWith(s, Space20)
          /\ ~StartsWith(Substr(s, 3) \o after, Space20)
          /\ Len(s) = 3 \/ LenientItems(Substr(s, 3), after)

\* _lenientDigits matching all of s.
_lenientDigits(s, after) ==
    LenientItems(IF StartsWith(s, <<"+">>) THEN Tail(s) ELSE s, after)

\* (?:_telParam)* matching all of s.
TelParams(s) ==
    \/ s = << >>
    \/ /\ StartsWith(s, <<";">>)
       /\ LET params == Split(Tail(s), ";")
          IN \A i \in 1..Len(params) : _telParam(<<";">> \o params[i])

\* _numberRegex.exec(recipient): the number and its parameters, or no match.
\* Neither the digits nor a parameter hold a ";", so the number ends at the
\* first one.
_numberRegex(recipient) ==
    LET semi == IndexOf(recipient, ";")
        number == IF semi = 0 THEN recipient ELSE SubSeq(recipient, 1, semi - 1)
        params == IF semi = 0 THEN << >> ELSE Substr(recipient, semi - 1)
    IN [match |-> _lenientDigits(number, params) /\ TelParams(params),
        number |-> number, params |-> params]

\* _lenientNumber matching all of s.
_lenientNumber(s) == _numberRegex(s).match

Scheme == <<"s", "m", "s", ":">>

\* _smsRegex.exec(uri): the recipients and the query, or no match. After
\* "sms:" two or three slashes are skipped; the recipients end at the first
\* "?", which no number holds, or at the end of the string.
_smsRegex(uri) ==
    LET rest == Substr(uri, Len(Scheme))
        slashes == IF StartsWith(rest, <<"/", "/", "/">>) THEN 3
                   ELSE IF StartsWith(rest, <<"/", "/">>) THEN 2 ELSE 0
        hier == Substr(rest, slashes)
        mark == IndexOf(hier, "?")
        recipients == IF mark = 0 THEN hier ELSE SubSeq(hier, 1, mark - 1)
        hasQuery == mark # 0
        query == IF mark = 0 THEN << >> ELSE Substr(hier, mark)
        numbers == Split(recipients, ",")
        fields == Split(query, "&")
    IN [match |-> /\ StartsWith(uri, Scheme)
                  /\ \A i \in 1..Len(numbers) : _lenientNumber(numbers[i])
                  /\ hasQuery => \A i \in 1..Len(fields) : _smsParam(fields[i]),
        recipients |-> recipients, hasQuery |-> hasQuery, query |-> query]

\* The character of a code; the alphabet has no other codes.
CharOf(code) == IF code = 233 THEN EAcute ELSE Ascii[code - 31]

\* The byte that "%XY" at the head of s stands for.
ByteAt(s) == 16 * HexVal(s[2]) + HexVal(s[3])

IsEscape(s) == Len(s) >= 3 /\ s[1] = "%" /\ s[2] \in HexChars /\ s[3] \in HexChars

\* unescape(s): every %XY becomes the character of code XY.
RECURSIVE unescape(_)
unescape(s) ==
    IF s = << >> THEN << >>
    ELSE IF IsEscape(s) THEN <<CharOf(ByteAt(s))>> \o unescape(Substr(s, 3))
    ELSE <<Head(s)>> \o unescape(Tail(s))

\* escape(s): letters, digits and @*_+-./ stay, every other character of a
\* code below 256 becomes %XY.
EscapeKept == Upper \cup Lower \cup Digits \cup {"@", "*", "_", "+", "-", ".", "/"}

RECURSIVE escape(_)
escape(s) ==
    IF s = << >> THEN << >>
    ELSE IF Head(s) \in EscapeKept THEN <<Head(s)>> \o escape(Tail(s))
    ELSE LET code == CharCode(Head(s))
         IN <<"%", HexDigit(code \div 16), HexDigit(code % 16)>> \o escape(Tail(s))

\* A continuation byte of UTF-8 is escaped at the head of s.
IsContinuation(s) == IsEscape(s) /\ ByteAt(s) \in 128..191

\* decodeURIComponent(s): the escapes of s are the bytes of UTF-8 text. A byte
\* below 128 is its character, a lead byte 0xC2..0xDF and its continuation
\* byte are one character, and a byte that starts no such sequence throws a
\* URIError.
RECURSIVE decodeURIComponent(_)
decodeURIComponent(s) ==
    IF s = << >> THEN [ok |-> TRUE, text |-> << >>]
    ELSE LET one(char, n) ==
                 LET rest == decodeURIComponent(Substr(s, n))
                 IN IF rest.ok THEN [ok |-> TRUE, text |-> <<char>> \o rest.text]
                    ELSE rest
             thrown == [ok |-> FALSE, text |-> << >>]
         IN IF Head(s) # "%" THEN one(Head(s), 1)
            ELSE IF ~IsEscape(s) THEN thrown
            ELSE IF ByteAt(s) < 128 THEN one(CharOf(ByteAt(s)), 3)
            ELSE IF ByteAt(s) \in 194..223 /\ IsContinuation(Substr(s, 3))
                 THEN one(CharOf((ByteAt(s) - 192) * 64 + ByteAt(Substr(s, 3)) - 128), 6)
            ELSE thrown

\* this.body: not set (undefined), or a string.
NoBody == [defined |-> FALSE, text |-> << >>]
Body(text) == [defined |-> TRUE, text |-> text]
\* if (this.body): the body is a string that is not empty.
HasBody(body) == body.defined /\ body.text # << >>

\* What new SmsURI(uri) throws.
Thrown(error) == [ok |-> FALSE, error |-> error]

PhoneContext == <<"p", "h", "o", "n", "e", "-", "c", "o", "n", "t", "e", "x", "t">>
BodyKey == <<"b", "o", "d", "y">>

\* The first global phone-context among the parameters from i on, or none.
RECURSIVE Prefix(_, _)
Prefix(params, i) ==
    IF i > Len(params) THEN << >>
    ELSE LET pair == Split(params[i], "=")
         IN IF pair[1] = PhoneContext /\ StartsWith(pair[2], <<"+">>)
            THEN pair[2]
            ELSE Prefix(params, i + 1)

\* The recipient without its phone-context.
Recipient_NoContext(recipient) == unescape(_numberRegex(recipient).number)

\* The recipient of the map callback (lines 720-735): the unescaped number,
\* after the global phone-context if there is one.
Recipient(recipient) ==
    LET found == _numberRegex(recipient)
        prefix == IF found.params # << >>
                  THEN Prefix(Split(Tail(found.params), ";"), 1)
                  ELSE << >>
    IN prefix \o unescape(found.number)

\* The loop over the fields keeping an empty value as the empty string.
RECURSIVE Query_EmptyString(_, _, _)
Query_EmptyString(fields, i, body) ==
    IF i > Len(fields) THEN [ok |-> TRUE, body |-> body]
    ELSE LET pair == Split(fields[i], "=")
             value == pair[2]
             decoded == decodeURIComponent(value)
         IN IF pair[1] # BodyKey THEN Query_EmptyString(fields, i + 1, body)
            ELSE IF HasBody(body) THEN Thrown("duplicate \"body\" field")
            ELSE IF ~decoded.ok THEN Thrown("URI malformed")
            ELSE Query_EmptyString(fields, i + 1, Body(decoded.text))

\* The loop over the fields of the query (lines 738-749), from field i on
\* with this.body as it is.
RECURSIVE Query(_, _, _)
Query(fields, i, body) ==
    IF i > Len(fields) THEN [ok |-> TRUE, body |-> body]
    ELSE LET pair == Split(fields[i], "=")
             value == pair[2]
             decoded == decodeURIComponent(value)
         IN IF pair[1] # BodyKey THEN Query(fields, i + 1, body)
            ELSE IF HasBody(body) THEN Thrown("duplicate \"body\" field")
            ELSE IF value = << >> THEN Query(fields, i + 1, NoBody)
            ELSE IF ~decoded.ok THEN Thrown("URI malformed")
            ELSE Query(fields, i + 1, Body(decoded.text))

\* new SmsURI(uri): the object, or what the constructor throws.
SmsURI(uri) ==
    LET found == _smsRegex(uri)
        numbers == Split(found.recipients, ",")
        query == IF found.hasQuery
                 THEN Query(Split(found.query, "&"), 1, NoBody)
                 ELSE [ok |-> TRUE, body |-> NoBody]
    IN IF ~found.match THEN Thrown("malformed sms URI")
       ELSE IF ~query.ok THEN query
       ELSE [ok |-> TRUE,
             recipients |-> [i \in 1..Len(numbers) |-> Recipient(numbers[i])],
             body |-> query.body]

\* SmsURI.toString()
toString(uri) ==
    LET text == Scheme \o Join(uri.recipients, ",")
    IN IF HasBody(uri.body) THEN text \o <<"?", "b", "o", "d", "y", "=">> \o escape(uri.body.text)
       ELSE text

\* ------------------------------------------- openUri and the whole plugin

\* What openUri may be given: the text of an sms: URI, well-formed or not,
\* or an SmsURI object.
OpenUriInputs ==
    {[kind |-> "string", text |-> <<"s", "m", "s", ":", "1", "1", "1", "?", "b", "o", "d", "y", "=", "a">>],
     [kind |-> "string", text |-> <<"t", "e", "l", ":", "1", "1", "1">>],
     [kind |-> "SmsURI", uri |-> SmsURI(<<"s", "m", "s", ":", "1", "1", "1", "?", "b", "o", "d", "y", "=", "a">>)]}

\* openUri(uri), lines 519-556. In !uri instanceof SmsURI the negation binds
\* first: (!uri) is a boolean, no instance of SmsURI, so the test is false
\* for every uri and the constructor is never called. uri.recipients is
\* then undefined (a string has no recipients) or an array, and _hasWindow
\* calls number.replace (line 456), which neither has: a TypeError is
\* thrown out of openUri before a window is looked up, made or presented.
OpenUriBody(w, uri) ==
    LET construct == FALSE
        parsed == SmsURI(uri.text)
    IN IF construct /\ ~parsed.ok
       THEN Did(w, "debug", "Error parsing sms URI", parsed.error)
       ELSE Did(w, "throw", "TypeError", "number.replace")

openUri(uri) ==
    /\ nOps < MaxOps
    /\ LET w == OpenUriBody(World, uri)
       IN Commit(w)
            /\ Done("openUri", [event |-> "none", isCancel |-> FALSE, uri |-> uri], w)
    /\ nOps' = nOps + 1
    /\ UNCHANGED <<allow, hasNotification, avatars, clock>>

Init ==
    /\ _state = 0
    /\ allow \in SUBSET AllowBits
    /\ hasNotification \in BOOLEAN
    /\ dedup = << >>
    /\ shown = {}
    /\ windows = << >>
    /\ avatars = << >>
    /\ clock = 0
    /\ nOps = 0
    /\ last = [op |-> "init", event |-> [event |-> "none", isCancel |-> FALSE],
               preState |-> 0, trace |-> << >>]

Next ==
    \/ \E packet \in Packets, path \in AvatarPaths : handlePacket(packet, path)
    \/ muteCall
    \/ \E n \in Numbers : sendSms(n, "hi")
    \/ openSms
    \/ \E n \in Numbers, c \in Names, t \in 0..MaxTime : replyMissedCall(n, c, t)
    \/ \E n \in Numbers, c \in Names, t \in 0..MaxTime : replySms(n, c, "hi", t)
    \/ shareUri("http://x")
    \/ \E uri \in OpenUriInputs : openUri(uri)
    \/ \E d \in {OtherDevice, NoDevice}, n \in Numbers : OtherWindow(d, n)
    \/ Tick

Spec == Init /\ [][Next]_vars

\* The codec on its own: a text is given to the constructor, the object is
\* serialized, and the serialization is given to the constructor again.
MaxRecipients == 3
MaxFields == 2
\* Two constructions and two serializations make a round trip.
MaxCodecSteps == 4

\* What stands before the recipients: the scheme, the scheme and an
\* authority mark, or the scheme of a tel: URI.
UriPrefixes == {Scheme, Scheme \o <<"/", "/">>, <<"t", "e", "l", ":">>}

\* Recipients a text may list: plain numbers, a local number with a global
\* phone-context, a number with one space and one with two spaces in a row.
UriNumbers ==
    {<<"1", "1", "1">>, <<"2", "2", "2">>, <<"3", "3", "3">>,
     <<"5", "5", "5", "1", "2", "3", "4", ";", "p", "h", "o", "n", "e", "-", "c", "o", "n", "t", "e", "x", "t", "=", "+", "1">>,
     <<"1", " ", "2">>, <<"1", " ", " ", "2">>}

\* Fields a query may hold: bodies (plain, empty, with an escaped "+", with
\* the byte 0xE9, with the UTF-8 bytes of e-acute) and another field.
UriFields ==
    {<<"b", "o", "d", "y", "=", "a">>, <<"b", "o", "d", "y", "=">>,
     <<"b", "o", "d", "y", "=", "a", "%", "2", "B", "b">>,
     <<"b", "o", "d", "y", "=", "%", "E", "9">>,
     <<"b", "o", "d", "y", "=", "%", "C", "3", "%", "A", "9">>,
     <<"f", "o", "o", "=", "x">>}

UriLists == UNION { [1..n -> UriNumbers] : n \in 0..MaxRecipients }
UriQueries == UNION { [1..n -> UriFields] : n \in 1..MaxFields }

\* What stands after the recipients: nothing, a query, a "?" without a
\* query, or a fragment.
UriTails ==
    {<< >>, <<"?">>, <<"#", "f", "o", "o">>}
    \cup { <<"?">> \o Join(fields, "&") : fields \in UriQueries }

Uris ==
    { prefix \o Join(list, ",") \o tail :
        prefix \in UriPrefixes, list \in UriLists, tail \in UriTails }

InitUri ==
    /\ _state = 0
    /\ allow = AllowBits
    /\ hasNotification = TRUE
    /\ dedup = << >>
    /\ shown = {}
    /\ windows = << >>
    /\ avatars = << >>
    /\ clock = 0
    /\ nOps = 0
    /\ \E uri \in Uris :
          last = [op |-> "text", text |-> uri, trace |-> << >>]

\* new SmsURI(text) on the text at hand.
Construct ==
    /\ last.op \in {"text", "toString"}
    /\ Len(last.trace) < MaxCodecSteps
    /\ LET uri == SmsURI(last.text)
       IN last' = [op |-> "SmsURI", text |-> last.text,
                   trace |-> Append(last.trace, Eff("SmsURI", last.text, uri))]
    /\ UNCHANGED <<_state, allow, hasNotification, dedup, shown, windows,
                   avatars, clock, nOps>>

\* uri.toString() on the object constructed last.
Serialize ==
    /\ last.op = "SmsURI"
    /\ Len(last.trace) < MaxCodecSteps
    /\ LET uri == last.trace[Len(last.trace)].data
       IN /\ uri.ok
          /\ last' = [op |-> "toString", text |-> toString(uri),
                      trace |-> Append(last.trace, Eff("toString", uri, toString(uri)))]
    /\ UNCHANGED <<_state, allow, hasNotification, dedup, shown, windows,
                   avatars, clock, nOps>>

NextUri == Construct \/ Serialize

SpecUri == InitUri /\ [][NextUri]_vars

\* ------------------------------------------------------------ properties

\* The last operation was handlePacket.
Handled == last.op = "handlePacket"

\* The effects of a type in the last operation.
Got(type) == Only(last.trace, type)

\* The handler the last operation ran, or "none".
HandlerRun == IF Len(Got("handler")) = 0 THEN "none" ELSE Got("handler")[1].id

\* The name a contact resolves to: the contact name, or the phone number
\* when there is no contact name.
DisplayName(contactName, phoneNumber) ==
    IF Len(contactName) = 0 THEN phoneNumber ELSE contactName

\* C1: for an inbound event with isCancel set, of any kind and under any
\* permission mask, handlePacket emits no "event" signal, sends no
\* notification, runs no handler, and issues exactly one withdrawal, whose
\* key is kind + "|" + the resolved contact name.
C1_CancelOnlyWithdraws ==
    (Handled /\ last.event.isCancel) =>
        /\ Len(Got("emit")) = 0
        /\ Len(Got("send_notification")) = 0
        /\ Len(Got("handler")) = 0
        /\ Len(Got("withdraw_notification")) = 1
        /\ Got("withdraw_notification")[1].id =
              <<last.event.event, "|">> \o
              DisplayName(last.event.contactName, last.event.phoneNumber)

\* A cancelled sms with both permission bits set was handled.
C1_Witness ==
    /\ Handled
    /\ last.event.isCancel
    /\ last.event.event = "sms"
    /\ allow = {"CALLS", "SMS"}
    /\ Len(Got("withdraw_notification")) = 1

\* C3: for an inbound event that is not a cancel, the "event" signal is
\* emitted exactly once, with the contact name, the phone number, the avatar
\* path and the message body, under every permission mask and for every
\* kind, before any handler runs or the event is rejected.
C3_EventSignalOnceAndFirst ==
    (Handled /\ ~last.event.isCancel) =>
        /\ Len(Got("emit")) = 1
        /\ last.trace[1].type = "emit"
        /\ last.trace[1].id = last.event.event
        /\ last.trace[1].data =
              <<DisplayName(last.event.contactName, last.event.phoneNumber),
                last.event.phoneNumber,
                last.event.contact.avatar,
                IF last.event.messageBody = Undefined THEN ""
                ELSE last.event.messageBody>>

\* An event of the kind "ended" was rejected with no permission bit set,
\* after its signal was emitted.
C3_Witness ==
    /\ Handled
    /\ ~last.event.isCancel
    /\ last.event.event = "ended"
    /\ allow = {}
    /\ Len(Got("emit")) = 1
    /\ Len(Got("reject")) = 1

\* The handler of a kind.
HandlerOf(kind) ==
    CASE kind = "sms" -> "_onSms"
      [] kind = "missedCall" -> "_onMissedCall"
      [] kind = "ringing" -> "_onRinging"
      [] kind = "talking" -> "_onTalking"
      [] OTHER -> "none"

\* C4: an event that is not a cancel gets exactly one of a handler run and a
\* rejection. The SMS handler runs iff the kind is sms and the SMS bit is
\* set; the handler of a call kind runs iff the kind is that kind and the
\* CALLS bit is set; every other event is rejected, with no notification.
C4_RoutingByPermission ==
    (Handled /\ ~last.event.isCancel) =>
        LET kind == last.event.event
            permitted == \/ kind = "sms" /\ "SMS" \in allow
                         \/ /\ kind \in {"missedCall", "ringing", "talking"}
                            /\ "CALLS" \in allow
        IN /\ Len(Got("handler")) + Len(Got("reject")) = 1
           /\ permitted => HandlerRun = HandlerOf(kind)
           /\ ~permitted =>
                 /\ Len(Got("reject")) = 1
                 /\ Len(Got("send_notification")) = 0

\* An sms was rejected with only the CALLS bit set.
C4_Witness ==
    /\ Handled
    /\ ~last.event.isCancel
    /\ last.event.event = "sms"
    /\ allow = {"CALLS"}
    /\ Len(Got("reject")) = 1
    /\ HandlerRun = "none"

\* The window lookup of the last operation found a window.
WindowFound == Len(Got("_hasWindow")) = 1 /\ Got("_hasWindow")[1].data # 0

\* The id under which a handler registers and notifies the last event.
EventId == <<last.event.event, "|">> \o ToDigits(last.event.time)

\* C2 as claimed: when _onSms or _onMissedCall finds an open window of the
\* device for the event's number, the event is appended to the window, the
\* pre-registered record is marked cancelled, and no notification is sent.
C2_Original ==
    (Handled /\ HandlerRun \in {"_onSms", "_onMissedCall"} /\ WindowFound) =>
        /\ Len(Got("receiveMessage")) = 1
        /\ hasNotification => (EventId \in DOMAIN dedup /\ dedup[EventId].cancelled)
        /\ Len(Got("send_notification")) = 0

\* C2 as amended: when _onSms or _onMissedCall finds an open window of the
\* device for the event's number, the event is appended to the window and
\* the pre-registered record is marked cancelled (when the notification
\* plugin is present), and the notification is still sent: exactly one
\* send_notification, under kind + "|" + time, after the append.
C2_WindowAndNotification ==
    (Handled /\ HandlerRun \in {"_onSms", "_onMissedCall"} /\ WindowFound) =>
        /\ Len(Got("receiveMessage")) = 1
        /\ Got("receiveMessage")[1].id = Got("_hasWindow")[1].data
        /\ hasNotification => (EventId \in DOMAIN dedup /\ dedup[EventId].cancelled)
        /\ Len(Got("send_notification")) = 1
        /\ Got("send_notification")[1].id = EventId
        /\ EventId \in shown
        /\ FirstPos(last.trace, "receiveMessage")
              < FirstPos(last.trace, "send_notification")

\* An sms was handled while a window of the device was open for its number,
\* with the notification plugin present.
C2_Witness ==
    /\ Handled
    /\ HandlerRun = "_onSms"
    /\ WindowFound
    /\ hasNotification
    /\ Len(windows[Got("_hasWindow")[1].data].log) > 0

\* The last operation handled a ringing or a talking event.
CallHandled == Handled /\ HandlerRun \in {"_onRinging", "_onTalking"}

\* C5 as claimed: the state after a handled ringing event differs from the
\* state after a handled talking event: when a talking event is handled
\* right after a ringing event, the state changes.
C5_Original ==
    [][(Handled /\ HandlerRun = "_onRinging" /\ Handled' /\ HandlerRun' = "_onTalking")
          => _state' # _state]_vars

\* C5 as amended: after a handled ringing event and after a handled talking
\* event the stored state is the same active value 2, which differs from
\* the restore value 1 and from the unset state.
C5_ActiveAfterCall == CallHandled => _state = 2

\* A talking event was handled while the state was the active one already.
C5_Witness ==
    /\ CallHandled
    /\ HandlerRun = "_onTalking"
    /\ last.preState = 2
    /\ _state = 2

\* C6: a cancel event leaves the restore value 1 (Muted) whatever the state
\* was, and a handled ringing or talking event never leaves the state at the
\* restore value, also when it was there before.
C6_CancelMutesCallUnmutes ==
    /\ (Handled /\ last.event.isCancel) => _state = 1
    /\ CallHandled => _state # 1

\* A ringing event was handled in the restore state and moved out of it.
C6_Witness ==
    /\ CallHandled
    /\ HandlerRun = "_onRinging"
    /\ last.preState = 1
    /\ _state # 1

\* C7 as claimed: after muteCall the state is Muted (the restore value 1)
\* and exactly one mute request was sent.
C7_Original ==
    (last.op = "muteCall") =>
        /\ _state = 1
        /\ Len(Got("sendPacket")) = 1

\* C7 as amended: muteCall, in any state, sends exactly one telephony
\* request with the action "mute" and leaves the stored state as it was.
C7_MuteRequestOnly ==
    (last.op = "muteCall") =>
        /\ _state = last.preState
        /\ Len(last.trace) = 1
        /\ last.trace[1].type = "sendPacket"
        /\ last.trace[1].id = "kdeconnect.telephony.request"
        /\ last.trace[1].data = [action |-> "mute"]

\* muteCall was taken in the active state.
C7_Witness ==
    /\ last.op = "muteCall"
    /\ last.preState = 2
    /\ _state = 2

\* The last operation handled an sms and found no window for its number.
SmsNoWindow ==
    /\ Handled
    /\ HandlerRun = "_onSms"
    /\ Len(Got("_hasWindow")) = 1
    /\ Got("_hasWindow")[1].data = 0

\* The one notification of an sms: its id, title, body and reply action.
SmsNotified ==
    /\ Len(Got("send_notification")) = 1
    /\ Got("send_notification")[1].id = EventId
    /\ LET notif == Got("send_notification")[1].data
           name == DisplayName(last.event.contactName, last.event.phoneNumber)
       IN /\ notif.title = name
          /\ notif.body = last.event.messageBody
          /\ notif.action = <<"replySms", last.event.phoneNumber, name,
                              last.event.messageBody, last.event.time>>

\* The one record an sms registers: not cancelled, keyed "sms|" + time.
SmsRegistered ==
    /\ Len(Got("markDuplicate")) = 1
    /\ Got("markDuplicate")[1].id = EventId
    /\ EventId \in DOMAIN dedup
    /\ ~dedup[EventId].cancelled

\* C8 as claimed: an sms with the SMS permission and no matching window
\* gives exactly one notification, "sms|" + time, titled with the contact's
\* display name (the phone number when the name is empty), with the message
\* as body and a replySms action, and registers exactly one record that is
\* not cancelled under "sms|" + time.
C8_Original == SmsNoWindow => (SmsNotified /\ SmsRegistered)

\* C8 as amended: the notification is as claimed; the record is registered
\* when the device has the notification plugin, and no record is registered
\* when it has not.
C8_SmsEndToEnd ==
    SmsNoWindow =>
        /\ SmsNotified
        /\ hasNotification => SmsRegistered
        /\ ~hasNotification => (Len(Got("markDuplicate")) = 0 /\ dedup = << >>)

\* An sms without a contact name was handled with no window open and the
\* notification plugin present.
C8_Witness ==
    /\ SmsNoWindow
    /\ hasNotification
    /\ last.event.contactName = << >>
    /\ last.event.phoneNumber = OtherNumber
    /\ last.event.messageBody = "hi"
    /\ Got("send_notification")[1].data.title = OtherNumber

\* The records other than id are the same before and after a step.
OthersKept(id) ==
    \A other \in (DOMAIN dedup \cup DOMAIN dedup') \ {id} :
        other \in DOMAIN dedup /\ other \in DOMAIN dedup' /\ dedup'[other] = dedup[other]

\* What one operation's markDuplicate calls do to the records.
C9_Step ==
    LET marks == Only(last'.trace, "markDuplicate")
        id == marks[1].id
    IN CASE Len(marks) = 0 -> dedup' = dedup
         [] Len(marks) = 1 /\ marks[1].data.isCancel ->
               IF id \in DOMAIN dedup
               THEN /\ DOMAIN dedup' = DOMAIN dedup
                    /\ dedup'[id].cancelled
                    /\ OthersKept(id)
               ELSE dedup' = dedup
         [] Len(marks) = 1 /\ ~marks[1].data.isCancel ->
               /\ id \in DOMAIN dedup'
               /\ dedup'[id] = [ticker |-> marks[1].data.ticker, cancelled |-> FALSE]
               /\ OthersKept(id)
         [] OTHER ->
               /\ Len(marks) = 2
               /\ marks[2].id = id
               /\ ~marks[1].data.isCancel
               /\ marks[2].data.isCancel
               /\ id \in DOMAIN dedup'
               /\ dedup'[id].cancelled
               /\ OthersKept(id)

\* C9: markDuplicate(id, ticker) followed by markDuplicate(id, ticker2,
\* isCancel) leaves the record of id present and cancelled, as the two
\* handlers that find a window do; markDuplicate with isCancel on an id
\* without a record changes nothing; markDuplicate without isCancel inserts
\* or overwrites the record of id and no other.
C9_MarkDuplicate ==
    [][(nOps' # nOps) =>
          /\ C9_Step
          /\ (/\ Handled'
              /\ HandlerRun' \in {"_onSms", "_onMissedCall"}
              /\ WindowFound'
              /\ hasNotification)
             => Len(Only(last'.trace, "markDuplicate")) = 2]_vars

\* A missed call was handled with a window open for its number: its record
\* was registered and then cancelled.
C9_Witness ==
    /\ Handled
    /\ HandlerRun = "_onMissedCall"
    /\ WindowFound
    /\ Len(Got("markDuplicate")) = 2
    /\ EventId \in DOMAIN dedup
    /\ dedup[EventId].cancelled

\* The digits of a string, in order.
RECURSIVE DigitsOf(_)
DigitsOf(str) ==
    IF Len(str) = 0 THEN << >>
    ELSE (IF Head(str) \in {"0", "1", "2", "3", "4", "5", "6", "7", "8", "9"}
          THEN <<Head(str)>> ELSE << >>) \o DigitsOf(Tail(str))

\* Window i is a window of this device whose number has the digits of number.
Matches(i, number) ==
    /\ windows[i].device = ThisDevice
    /\ DigitsOf(windows[i].number) = DigitsOf(number)

\* C10: _hasWindow returns a window iff some window of this device has a
\* number with the digit sequence of the query; the window returned is such
\* a window, so never one of another device or of no device; "+1 (555)
\* 123-4567" and "15551234567" have the same digit sequence.
C10_LookupByDigits ==
    (last.op = "_hasWindow") =>
        LET number == last.trace[1].id
            found == last.trace[1].data
        IN /\ (found # 0) <=> (\E i \in 1..Len(windows) : Matches(i, number))
           /\ (found # 0) => (found \in 1..Len(windows) /\ Matches(found, number))
           /\ (/\ number = ExamplePlain
               /\ \E i \in 1..Len(windows) :
                     /\ windows[i].device = ThisDevice
                     /\ windows[i].number = ExampleFormatted)
              => found # 0

\* "15551234567" was looked up and the second window, of this device with
\* the number "+1 (555) 123-4567", was returned, past a window of another
\* device with the number "15551234567".
C10_Witness ==
    /\ last.op = "_hasWindow"
    /\ last.trace[1].id = ExamplePlain
    /\ Len(windows) = 2
    /\ windows[1].device = OtherDevice
    /\ windows[1].number = ExamplePlain
    /\ windows[2].device = ThisDevice
    /\ windows[2].number = ExampleFormatted
    /\ last.trace[1].data = 2

\* ------------------------------------------------- properties of the codec

\* The constructions of the run: the text given and what came of it.
Constructions == Only(last.trace, "SmsURI")

\* The number of fields of the text's query whose key is body.
BodyFields(text) ==
    Cardinality({ i \in 1..Len(text) :
                    /\ text[i] \in {"?", "&"}
                    /\ StartsWith(Substr(text, i), BodyKey \o <<"=">>) })

\* C11: constructing an SmsURI from a text whose query holds the body field
\* more than once throws, whatever the values of the fields are, the empty
\* value included; no body silently replaces another.
C11_DuplicateBodyFatal ==
    \A i \in 1..Len(Constructions) :
        BodyFields(Constructions[i].id) >= 2 => ~Constructions[i].data.ok

\* The number of body fields of the text's query whose value is empty.
EmptyBodyFields(text) ==
    Cardinality({ i \in 1..Len(text) :
                    /\ text[i] \in {"?", "&"}
                    /\ StartsWith(Substr(text, i), BodyKey \o <<"=">>)
                    /\ \/ Len(text) = i + 5
                       \/ text[i + 6] = "&" })

\* C12 as stated: a text whose body field has an empty value yields the
\* empty string as the body, and a text without a body field yields no body.
C12_Original ==
    \A i \in 1..Len(Constructions) :
        LET text == Constructions[i].id
            uri == Constructions[i].data
        IN uri.ok =>
              /\ (BodyFields(text) = 1 /\ EmptyBodyFields(text) = 1)
                    => uri.body = Body(<< >>)
              /\ BodyFields(text) = 0 => uri.body = NoBody

\* C12: a text whose body fields all have an empty value yields no body
\* (undefined), exactly as a text without a body field does; a body that is
\* set is never the empty string.
C12_EmptyBodyIsAbsent ==
    \A i \in 1..Len(Constructions) :
        LET text == Constructions[i].id
            uri == Constructions[i].data
        IN uri.ok =>
              /\ BodyFields(text) = EmptyBodyFields(text) => uri.body = NoBody
              /\ uri.body.defined => uri.body.text # << >>

C12_Witness ==
    \E i \in 1..Len(Constructions) :
        /\ Constructions[i].data.ok
        /\ BodyFields(Constructions[i].id) = 1
        /\ EmptyBodyFields(Constructions[i].id) = 1
        /\ Constructions[i].data.body = NoBody

\* C13: an SmsURI that is serialized and constructed again is constructed
\* without an error, and its serialization is the serialization it was
\* constructed from: toString(SmsURI(toString(x))) = toString(x).
C13_RoundTrip ==
    /\ Len(last.trace) >= 3 => last.trace[3].data.ok
    /\ Len(last.trace) >= 4 => last.trace[4].data = last.trace[2].data

\* The text without the scheme and the slashes after it.
AfterScheme(text) ==
    LET rest == Substr(text, Len(Scheme))
        first == IF \E i \in 1..Len(rest) : rest[i] # "/"
                 THEN CHOOSE i \in 1..Len(rest) :
                         rest[i] # "/" /\ \A j \in 1..(i - 1) : rest[j] = "/"
                 ELSE Len(rest) + 1
    IN Substr(rest, first - 1)

\* The text holds part at some place.
Holds(text, part) ==
    \E i \in 1..Len(text) : StartsWith(Substr(text, i - 1), part)

\* Texts outside the grammar: another scheme, no recipient, two spaces in a
\* row, a fragment.
OtherScheme(text) == ~StartsWith(text, Scheme)
NoRecipients(text) ==
    StartsWith(text, Scheme)
        /\ (AfterScheme(text) = << >> \/ Head(AfterScheme(text)) \in {"?", "#"})
TwoSpaces(text) == Holds(text, <<" ", " ">>)
Fragment(text) == Holds(text, <<"#", "f", "o", "o">>)

\* C14: constructing an SmsURI from a text that does not match the grammar
\* (another scheme, no recipient, two spaces in a row in a number, a
\* fragment) throws the URIError "malformed sms URI", and what is thrown
\* carries no recipients and no body.
C14_MalformedThrows ==
    \A i \in 1..Len(Constructions) :
        LET text == Constructions[i].id
            uri == Constructions[i].data
        IN /\ (\/ OtherScheme(text)
               \/ NoRecipients(text)
               \/ TwoSpaces(text)
               \/ Fragment(text)
               \/ ~_smsRegex(text).match)
                 => uri = [ok |-> FALSE, error |-> "malformed sms URI"]
           /\ ~uri.ok => DOMAIN uri = {"ok", "error"}

C14_Witness ==
    \E i \in 1..Len(Constructions) :
        /\ StartsWith(Constructions[i].id, Scheme)
        /\ TwoSpaces(Constructions[i].id)
        /\ ~NoRecipients(Constructions[i].id)
        /\ ~Fragment(Constructions[i].id)
        /\ Constructions[i].data = [ok |-> FALSE, error |-> "malformed sms URI"]

\* The recipients of a text as they are written, in order: what stands
\* between the scheme and the query, taken apart at the commas.
Written(text) ==
    LET hier == AfterScheme(text)
        mark == IndexOf(hier, "?")
    IN Split(IF mark = 0 THEN hier ELSE SubSeq(hier, 1, mark - 1), ",")

LocalWithContext ==
    <<"5", "5", "5", "1", "2", "3", "4", ";", "p", "h", "o", "n", "e", "-",
      "c", "o", "n", "t", "e", "x", "t", "=", "+", "1">>
GlobalFromContext == <<"+", "1", "5", "5", "5", "1", "2", "3", "4">>

\* C15: an SmsURI that is constructed has at least one recipient, and one
\* recipient for each recipient written, in the order written: a number
\* without parameters and escapes is itself, and a local number with the
\* phone-context +1 is the context followed by the digits, at its place.
C15_RecipientsInOrder ==
    \A i \in 1..Len(Constructions) :
        LET text == Constructions[i].id
            uri == Constructions[i].data
        IN uri.ok =>
              /\ Len(uri.recipients) >= 1
              /\ Len(uri.recipients) = Len(Written(text))
              /\ \A k \in 1..Len(Written(text)) :
                    /\ (IndexOf(Written(text)[k], ";") = 0
                           /\ IndexOf(Written(text)[k], "%") = 0)
                          => uri.recipients[k] = Written(text)[k]
                    /\ Written(text)[k] = LocalWithContext
                          => uri.recipients[k] = GlobalFromContext

C15_Witness ==
    \E i \in 1..Len(Constructions) :
        /\ Constructions[i].data.ok
        /\ Written(Constructions[i].id) =
              <<<<"1", "1", "1">>, LocalWithContext, <<"3", "3", "3">>>>
        /\ Constructions[i].data.recipients =
              <<<<"1", "1", "1">>, GlobalFromContext, <<"3", "3", "3">>>>

\* ------------------------------------------------------ further properties

\* C16: openUri given the text of an sms: URI constructs the SmsURI. For a
\* well-formed text one conversation window is presented, with the body as
\* its message when there is one, and nothing is thrown; for a malformed
\* text the diagnostic is logged, openUri returns without throwing, and no
\* window is made or presented.
C16_OpenUriParses ==
    (last.op = "openUri" /\ last.event.uri.kind = "string") =>
        LET parsed == SmsURI(last.event.uri.text)
        IN /\ Got("throw") = << >>
           /\ parsed.ok =>
                 /\ Len(Only(last.trace, "present")) = 1
                 /\ HasBody(parsed.body) =>
                       \E i \in 1..Len(windows) :
                           /\ Only(last.trace, "present")[1].id = i
                           /\ windows[i].message = parsed.body.text
           /\ ~parsed.ok =>
                 /\ Got("debug") # << >>
                 /\ Got("present") = << >>
                 /\ windows = World.windows

\* A conversation of this device is open: a window of this device that has
\* a number.
ConversationOpen ==
    \E i \in 1..Len(windows) :
        windows[i].device = ThisDevice /\ windows[i].number # << >>

\* What shareUri("http://x") opens.
SharePicker == [ConversationWindow(ThisDevice) EXCEPT !.share = TRUE, !.message = "http://x"]
ShareComposer == [ConversationWindow(ThisDevice) EXCEPT !.message = "http://x"]

\* C17: shareUri(url) opens the recipient picker for url, and no blank
\* composer, when a conversation of this device is open, and otherwise a
\* blank composer whose message is url; either way it makes one window and
\* presents that window only, and the windows of other devices or of no
\* device never bring the picker.
C17_ShareUri ==
    [][(last'.op = "shareUri" /\ nOps' = nOps + 1) =>
          /\ windows' = Append(windows, IF ConversationOpen THEN SharePicker
                                        ELSE ShareComposer)
          /\ Only(last'.trace, "present")
                = <<Eff("present", Len(windows) + 1, Undefined)>>]_vars

C17_Witness ==
    /\ last.op = "shareUri"
    /\ Len(windows) = 2
    /\ windows[1].device = ThisDevice
    /\ windows[1].number # << >>
    /\ windows[2] = SharePicker

\* The duplicate of the last event is registered, under the event's id, and
\* before the first effect of the given type, if there is one.
RegisteredBefore(type) ==
    /\ FirstPos(last.trace, "markDuplicate") > 0
    /\ last.trace[FirstPos(last.trace, "markDuplicate")].id = EventId
    /\ FirstPos(last.trace, type) > 0
          => FirstPos(last.trace, "markDuplicate") < FirstPos(last.trace, type)

\* C18 as stated: with the notification plugin, each of the four handlers
\* registers the duplicate under kind|time before it looks up a window and
\* before it sends a notification.
C18_Original ==
    (Handled /\ HandlerRun # "none" /\ hasNotification) =>
        RegisteredBefore("_hasWindow") /\ RegisteredBefore("send_notification")

\* C18: with the notification plugin, _onMissedCall and _onSms register the
\* duplicate under kind|time, then look up the window, then send the
\* notification; _onRinging and _onTalking register no duplicate and look
\* up no window.
C18_RegisterFirst ==
    (Handled /\ hasNotification) =>
        /\ HandlerRun \in {"_onMissedCall", "_onSms"} =>
              /\ RegisteredBefore("_hasWindow")
              /\ Len(Got("_hasWindow")) = 1
              /\ Len(Got("send_notification")) = 1
              /\ FirstPos(last.trace, "_hasWindow")
                    < FirstPos(last.trace, "send_notification")
        /\ HandlerRun \in {"_onRinging", "_onTalking"} =>
              /\ Got("markDuplicate") = << >>
              /\ Got("_hasWindow") = << >>
              /\ Len(Got("send_notification")) = 1

C18_Witness ==
    /\ Handled
    /\ hasNotification
    /\ HandlerRun = "_onMissedCall"
    /\ FirstPos(last.trace, "markDuplicate") > 0
    /\ FirstPos(last.trace, "markDuplicate") < FirstPos(last.trace, "_hasWindow")
    /\ FirstPos(last.trace, "_hasWindow") < FirstPos(last.trace, "send_notification")

\* The step is handlePacket rejecting an event that is no cancel.
RejectStep ==
    /\ last'.op = "handlePacket"
    /\ nOps' = nOps + 1
    /\ ~last'.event.isCancel
    /\ Only(last'.trace, "reject") # << >>

\* The rejected event did nothing to notifications, duplicates and windows.
NothingDone ==
    \A i \in 1..Len(last'.trace) :
        last'.trace[i].type \in {"emit", "reject"}

\* C19 as stated: a rejected event that is no cancel sends and withdraws no
\* notification, registers no duplicate, touches no window and leaves the
\* media state, so that the plugin is as if the event had never arrived.
C19_Original ==
    [][RejectStep =>
          /\ NothingDone
          /\ UNCHANGED <<_state, dedup, shown, windows>>
          /\ UNCHANGED avatars]_vars

\* C19: a rejected event that is no cancel sends and withdraws no
\* notification, registers no duplicate, touches no window and leaves the
\* media state; of the plugin's state it can change the contact store only,
\* by the avatar written from its phoneThumbnail.
C19_RejectionFrame ==
    [][RejectStep =>
          /\ NothingDone
          /\ UNCHANGED <<_state, dedup, shown, windows>>
          /\ avatars' # avatars => Truthy(last'.packet.phoneThumbnail)]_vars

C19_Witness ==
    /\ Handled
    /\ ~last.event.isCancel
    /\ Got("reject") # << >>
    /\ shown # {}
    /\ dedup # << >>

\* The avatar the store holds for a contact, or none.
AvatarOf(store, name) ==
    IF name \in DOMAIN store THEN store[name] ELSE NoAvatar

\* C20: an avatar is written to the contact store only by an event that
\* carries a phoneThumbnail and whose contact has no avatar, and it is
\* written for that contact only; an avatar that is set is never replaced;
\* and the normalized event has no phoneThumbnail, whether the avatar was
\* written or not.
C20_AvatarWriteBack ==
    [][/\ avatars' # avatars =>
             /\ last'.op = "handlePacket"
             /\ nOps' = nOps + 1
             /\ last'.wrote
             /\ Truthy(last'.packet.phoneThumbnail)
             /\ AvatarOf(avatars, last'.event.contact.name) = NoAvatar
             /\ \A n \in DOMAIN avatars : avatars'[n] = avatars[n]
             /\ DOMAIN avatars' = DOMAIN avatars \cup {last'.event.contact.name}
       /\ \A n \in DOMAIN avatars :
             avatars[n] # NoAvatar => AvatarOf(avatars', n) = avatars[n]
       /\ (last'.op = "handlePacket" /\ nOps' = nOps + 1) =>
             /\ last'.event.phoneThumbnail = Undefined
             /\ last'.wrote <=> avatars' # avatars]_vars

C20_Witness ==
    /\ Handled
    /\ Truthy(last.packet.phoneThumbnail)
    /\ ~last.wrote
    /\ last.event.contact.avatar # NoAvatar
    /\ last.event.phoneThumbnail = Undefined

\* ------------------------------------------------------- closing properties

\* The next operation is a packet of the contact of the ringing event that
\* was handled last and whose notification is presented: the cancel of the
\* ringing, or the talking event that a handler takes.
RingThenEnd ==
    /\ Handled
    /\ HandlerRun = "_onRinging"
    /\ EventId \in shown
    /\ last'.op = "handlePacket"
    /\ nOps' = nOps + 1
    /\ last'.event.contact.name = last.event.contact.name
    /\ \/ last'.event.isCancel /\ last'.event.event = "ringing"
       \/ Only(last'.trace, "handler") = <<Eff("handler", "_onTalking", Undefined)>>

\* C21: the withdrawal issued on the cancel of a ringing event, or by the
\* talking handler for the ring before it, names an id under which the
\* ringing notification was sent, and after it the ringing notification is
\* presented no longer.
C21_WithdrawalTargetsSent ==
    [][RingThenEnd =>
          /\ Only(last'.trace, "withdraw_notification") # << >>
          /\ \A i \in 1..Len(last'.trace) :
                last'.trace[i].type = "withdraw_notification"
                    => last'.trace[i].id \in shown
          /\ EventId \notin shown']_vars

\* The next operation is a packet that the handler of the event handled
\* last takes as well: two handled events of one kind, one after the other.
SameKindAgain ==
    /\ Handled
    /\ HandlerRun # "none"
    /\ last'.op = "handlePacket"
    /\ nOps' = nOps + 1
    /\ Only(last'.trace, "handler") = <<Eff("handler", HandlerRun, Undefined)>>

\* C22: of two handled events of one kind the later has an id, kind|time,
\* that differs from the id of the earlier, and it neither replaces the
\* notification nor overwrites the duplicate record of the earlier: each
\* handled sms with no window open adds one notification and, with the
\* notification plugin, one record.
C22_DistinctIds ==
    [][SameKindAgain =>
          /\ Key(last'.event.event, ToDigits(last'.event.time)) # EventId
          /\ (HandlerRun = "_onSms" /\ EventId \in shown) =>
                Cardinality(shown') = Cardinality(shown) + 1
          /\ (HandlerRun = "_onSms" /\ hasNotification) =>
                /\ Cardinality(DOMAIN dedup') = Cardinality(DOMAIN dedup) + 1
                /\ dedup'[EventId] = dedup[EventId]]_vars

\* The step is an operation that is no call activity: an sms or missedCall
\* event that is no cancel, handled or rejected, or one of the actions
\* sendSms, openSms, replySms, replyMissedCall and shareUri.
NoCallActivity ==
    /\ nOps' = nOps + 1
    /\ \/ last'.op \in {"sendSms", "openSms", "replySms", "replyMissedCall", "shareUri"}
       \/ /\ last'.op = "handlePacket"
          /\ ~last'.event.isCancel
          /\ last'.event.event \in {"sms", "missedCall"}

\* C23: an operation that is no call activity leaves the media state as it
\* was, and the media state is always unset (0), the restore value 1 or the
\* active value 2.
C23_OnlyCallsDriveState ==
    [][/\ NoCallActivity => _state' = _state
       /\ _state \in {0, 1, 2}
       /\ _state' \in {0, 1, 2}]_vars

\* An sms was handled while a call had left the active state.
C23_Witness ==
    /\ Handled
    /\ HandlerRun = "_onSms"
    /\ last.preState = 2
    /\ _state = 2
====
